---- MODULE Spec2Model ----
(***************************************************************************)
(* Model of the etcd based distributed lock (etcd_dlock_test.go,           *)
(* TestDistributedLockNormal) and of the service registry / discovery      *)
(* (service_registry/registry.go, discovery.go).                           *)
(*                                                                         *)
(* The etcd store is the environment: its key space, leases, revisions and *)
(* watch streams are state of the model, and its failures (a request that  *)
(* returns an error, a lease that expires, a watch channel that closes)    *)
(* are inputs or environment actions.                                      *)
(***************************************************************************)
EXTENDS Integers, Sequences, FiniteSets, TLC

\* ------------------------------------------------------------------------
\* Bounds
\* ------------------------------------------------------------------------
\* number of processes running TestDistributedLockNormal on the same key
NumProcs == 3
\* number of RegistryEtcd objects (each with its own client)
NumRegistries == 2
\* number of leases the store grants to registries
MaxLeases == 2
\* contenders stop arriving once the store's revision has reached this
MaxRevision == 6
\* keep-alive responses a stream buffers before the client drops new ones
MaxAcks == 2
\* number of goroutines using one SpinLock
NumGoroutines == 4

Procs == 1..NumProcs
Registries == 1..NumRegistries
LeaseIds == 1..MaxLeases
Goroutines == 1..NumGoroutines

VARIABLES
    \* ---- distributed lock (etcd_dlock_test.go) ----
    pc,             \* pc[p]: position of process p in TestDistributedLockNormal
    lease,          \* lease[p]: state of leaseResp.ID of p in the store
    keepAliveChan,  \* keepAliveChan[p]: "nil", "open" or "closed"
    txnSucceeded,   \* txnSucceeded[p]: txnResp.Succeeded of p's last Commit
    lockKey,        \* the store's entry for lockKey (NoKey when absent)
    revision,       \* the store's revision counter
    watchChan,      \* watchChan[p]: the channel p ranges over while waiting
    watchCount,     \* watchCount[p]: watch subscriptions p has open
    \* ---- service registry and discovery (service_registry/) ----
    client,         \* client[r]: r.client of RegistryEtcd r, "open" or "closed"
    leaseID,        \* leaseID[r]: r.leaseID (0 before the first Grant)
    leaseKeepAliveRespCh, \* [r]: lease whose stream r.leaseKeepAliveRespCh is
    leases,         \* leases[l]: the store's state of lease l
    leaseOwner,     \* leaseOwner[l]: the registry whose Grant returned l
    renewing,       \* leases whose KeepAlive is running in some client
    nextLease,      \* the next lease id the store grants
    records,        \* the registration records in the store
    lastCall,       \* the last call of Registry, DeRegistry or GetServiceAddr
                    \* and what it returned
    consumer,       \* consumer[l]: the goroutine started by the Registry call
                    \* that was granted lease l
    acks,           \* acks[l]: unread responses in the KeepAlive stream of l
    \* ---- SpinLock (spin_lock.go) ----
    flag,           \* sl.flag
    spin            \* spin[g]: position of goroutine g around sl

lockVars == <<pc, lease, keepAliveChan, txnSucceeded, lockKey, revision,
              watchChan, watchCount>>

regVars == <<client, leaseID, leaseKeepAliveRespCh, leases, leaseOwner,
             renewing, nextLease, records, lastCall>>

kaVars == <<consumer, acks>>

spinVars == <<flag, spin>>

vars == <<pc, lease, keepAliveChan, txnSucceeded, lockKey, revision,
          watchChan, watchCount, client, leaseID, leaseKeepAliveRespCh,
          leases, leaseOwner, renewing, nextLease, records, lastCall,
          consumer, acks, flag, spin>>

\* ------------------------------------------------------------------------
\* The store's view of the lock key
\* ------------------------------------------------------------------------
\* an absent key: no lease, creation revision 0
NoKey == [lease |-> 0, createRev |-> 0]

\* clientv3.CreateRevision(lockKey): 0 iff the key does not exist
CreateRevision(kv) == kv.createRev

\* clientv3.Compare(clientv3.CreateRevision(lockKey), "=", 0)
CompareAbsent(kv) == CreateRevision(kv) = 0

NilChan == [state |-> "nil", events |-> <<>>]
OpenChan == [state |-> "open", events |-> <<>>]

\* The store delivers event ev to every watch on lockKey that is being read.
\* (Subscriptions a process has abandoned by goto getlock still exist, see
\* watchCount, but nothing reads their events any more.)
Notify(ev) ==
    [q \in Procs |->
        IF pc[q] = "Waiting" /\ watchChan[q].state = "open"
        THEN [watchChan[q] EXCEPT !.events = Append(@, ev)]
        ELSE watchChan[q]]

\* deferred client.Close() of process p: its keep-alive stream and all its
\* watch subscriptions end; the lease itself is not revoked
CloseKeepAlive(p) ==
    [keepAliveChan EXCEPT ![p] = IF @ = "open" THEN "closed" ELSE @]

\* ------------------------------------------------------------------------
\* TestDistributedLockNormal, one action per step
\* ------------------------------------------------------------------------
InitLock ==
    /\ pc = [p \in Procs |-> "Idle"]
    /\ lease = [p \in Procs |-> "none"]
    /\ keepAliveChan = [p \in Procs |-> "nil"]
    /\ txnSucceeded = [p \in Procs |-> FALSE]
    /\ lockKey = NoKey
    /\ revision = 1
    /\ watchChan = [p \in Procs |-> NilChan]
    /\ watchCount = [p \in Procs |-> 0]

\* client.Grant and client.KeepAlive (lines 108-140)
Grant(p, grantOk, keepAliveOk) ==
    /\ pc[p] = "Idle"
    /\ UNCHANGED <<regVars, kaVars, spinVars>>
    /\ IF ~grantOk
       THEN /\ pc' = [pc EXCEPT ![p] = "Failed"]
            /\ UNCHANGED <<lease, keepAliveChan>>
       ELSE IF ~keepAliveOk
       THEN /\ pc' = [pc EXCEPT ![p] = "Failed"]
            /\ lease' = [lease EXCEPT ![p] = "live"]
            /\ UNCHANGED keepAliveChan
       ELSE /\ pc' = [pc EXCEPT ![p] = "Attempting"]
            /\ lease' = [lease EXCEPT ![p] = "live"]
            /\ keepAliveChan' = [keepAliveChan EXCEPT ![p] = "open"]
    /\ UNCHANGED <<txnSucceeded, lockKey, revision, watchChan, watchCount>>

\* a process other than p that has watched the key and still wants the lock
EarlierWaiter(p) ==
    \E q \in Procs \ {p} :
        /\ watchCount[q] > 0
        /\ pc[q] \in {"Attempting", "Contended", "Waiting"}

\* Txn with the compare also failing while an earlier waiter exists (a lock
\* that queues its contenders)
TxnBehindWaiters(p, storeOk) ==
    /\ pc[p] = "Attempting"
    /\ UNCHANGED <<regVars, kaVars, spinVars>>
    /\ IF ~storeOk \/ (CompareAbsent(lockKey) /\ lease[p] # "live")
       THEN \* err != nil: store unreachable, or the Put names a lease the
            \* store no longer has; t.Fatalf ends the test, client closed
            /\ pc' = [pc EXCEPT ![p] = "Failed"]
            /\ keepAliveChan' = CloseKeepAlive(p)
            /\ watchCount' = [watchCount EXCEPT ![p] = 0]
            /\ UNCHANGED <<txnSucceeded, lockKey, revision, watchChan>>
       ELSE IF CompareAbsent(lockKey) /\ ~EarlierWaiter(p)
       THEN /\ lockKey' = [lease |-> p, createRev |-> revision + 1]
            /\ revision' = revision + 1
            /\ txnSucceeded' = [txnSucceeded EXCEPT ![p] = TRUE]
            /\ pc' = [pc EXCEPT ![p] = "Critical"]
            /\ watchChan' = Notify("PUT")
            /\ UNCHANGED <<keepAliveChan, watchCount>>
       ELSE /\ txnSucceeded' = [txnSucceeded EXCEPT ![p] = FALSE]
            /\ pc' = [pc EXCEPT ![p] = "Contended"]
            /\ UNCHANGED <<lockKey, revision, watchChan, keepAliveChan,
                           watchCount>>
    /\ UNCHANGED lease

\* getlock: Txn.If(CreateRevision = 0).Then(OpPut with lease).Commit()
\* (lines 143-186)
Txn(p, storeOk) ==
    /\ pc[p] = "Attempting"
    /\ UNCHANGED <<regVars, kaVars, spinVars>>
    /\ IF ~storeOk \/ (CompareAbsent(lockKey) /\ lease[p] # "live")
       THEN \* err != nil: store unreachable, or the Put names a lease the
            \* store no longer has; t.Fatalf ends the test, client closed
            /\ pc' = [pc EXCEPT ![p] = "Failed"]
            /\ keepAliveChan' = CloseKeepAlive(p)
            /\ watchCount' = [watchCount EXCEPT ![p] = 0]
            /\ UNCHANGED <<txnSucceeded, lockKey, revision, watchChan>>
       ELSE IF CompareAbsent(lockKey)
       THEN /\ lockKey' = [lease |-> p, createRev |-> revision + 1]
            /\ revision' = revision + 1
            /\ txnSucceeded' = [txnSucceeded EXCEPT ![p] = TRUE]
            /\ pc' = [pc EXCEPT ![p] = "Critical"]
            /\ watchChan' = Notify("PUT")
            /\ UNCHANGED <<keepAliveChan, watchCount>>
       ELSE /\ txnSucceeded' = [txnSucceeded EXCEPT ![p] = FALSE]
            /\ pc' = [pc EXCEPT ![p] = "Contended"]
            /\ UNCHANGED <<lockKey, revision, watchChan, keepAliveChan,
                           watchCount>>
    /\ UNCHANGED lease

\* watchChan := client.Watch(ctx, lockKey) (line 191): a new subscription
\* that starts at the store's current revision
OpenWatch(p) ==
    /\ pc[p] = "Contended"
    /\ UNCHANGED <<regVars, kaVars, spinVars>>
    /\ pc' = [pc EXCEPT ![p] = "Waiting"]
    /\ watchChan' = [watchChan EXCEPT ![p] = OpenChan]
    /\ watchCount' = [watchCount EXCEPT ![p] = @ + 1]
    /\ UNCHANGED <<lease, keepAliveChan, txnSucceeded, lockKey, revision>>

\* RecvEvent with the test of line 199 on the wrong event type: the waiter
\* jumps back on a Put event and reads past a Delete event
RecvEventOnPut(p) ==
    /\ pc[p] = "Waiting"
    /\ UNCHANGED <<regVars, kaVars, spinVars>>
    /\ watchChan[p].events # <<>>
    /\ IF Head(watchChan[p].events) = "PUT"
       THEN /\ pc' = [pc EXCEPT ![p] = "Attempting"]
            /\ watchChan' = [watchChan EXCEPT ![p].events = <<>>]
       ELSE /\ watchChan' = [watchChan EXCEPT ![p].events = Tail(@)]
            /\ UNCHANGED pc
    /\ UNCHANGED <<lease, keepAliveChan, txnSucceeded, lockKey, revision,
                   watchCount>>

\* one iteration of the loops of lines 194-208 on the next event
RecvEvent(p) ==
    /\ pc[p] = "Waiting"
    /\ UNCHANGED <<regVars, kaVars, spinVars>>
    /\ watchChan[p].events # <<>>
    /\ IF Head(watchChan[p].events) = "DELETE"
       THEN \* goto getlock; the subscription is left open
            /\ pc' = [pc EXCEPT ![p] = "Attempting"]
            /\ watchChan' = [watchChan EXCEPT ![p].events = <<>>]
       ELSE /\ watchChan' = [watchChan EXCEPT ![p].events = Tail(@)]
            /\ UNCHANGED pc
    /\ UNCHANGED <<lease, keepAliveChan, txnSucceeded, lockKey, revision,
                   watchCount>>

\* the store connection is lost: the watch channel is closed (line 209)
WatchClose(p) ==
    /\ pc[p] = "Waiting"
    /\ UNCHANGED <<regVars, kaVars, spinVars>>
    /\ watchChan[p].state = "open"
    /\ watchChan' = [watchChan EXCEPT ![p].state = "closed"]
    /\ watchCount' = [watchCount EXCEPT ![p] = 0]
    /\ UNCHANGED <<pc, lease, keepAliveChan, txnSucceeded, lockKey, revision>>

\* for w := range watchChan ends on the closed channel; control falls out of
\* the else branch to the critical section (lines 208-215)
WatchLoopExit(p) ==
    /\ pc[p] = "Waiting"
    /\ UNCHANGED <<regVars, kaVars, spinVars>>
    /\ watchChan[p].state = "closed"
    /\ watchChan[p].events = <<>>
    /\ pc' = [pc EXCEPT ![p] = "Critical"]
    /\ UNCHANGED <<lease, keepAliveChan, txnSucceeded, lockKey, revision,
                   watchChan, watchCount>>

\* client.Delete(ctx, lockKey) and the end of the test (lines 219-230)
Unlock(p, storeOk) ==
    /\ pc[p] = "Critical"
    /\ UNCHANGED <<regVars, kaVars, spinVars>>
    /\ IF storeOk
       THEN /\ pc' = [pc EXCEPT ![p] = "Done"]
            /\ IF lockKey # NoKey
               THEN /\ lockKey' = NoKey
                    /\ revision' = revision + 1
                    /\ watchChan' = Notify("DELETE")
               ELSE UNCHANGED <<lockKey, revision, watchChan>>
       ELSE /\ pc' = [pc EXCEPT ![p] = "Failed"]
            /\ UNCHANGED <<lockKey, revision, watchChan>>
    /\ keepAliveChan' = CloseKeepAlive(p)
    /\ watchCount' = [watchCount EXCEPT ![p] = 0]
    /\ UNCHANGED <<lease, txnSucceeded>>

\* the store expires p's lease (no renewal arrived within the TTL): every
\* key bound to the lease is deleted and the keep-alive stream ends
LeaseExpire(p) ==
    /\ lease[p] = "live"
    /\ UNCHANGED <<regVars, kaVars, spinVars>>
    /\ lease' = [lease EXCEPT ![p] = "expired"]
    /\ keepAliveChan' = CloseKeepAlive(p)
    /\ IF lockKey.lease = p
       THEN /\ lockKey' = NoKey
            /\ revision' = revision + 1
            /\ watchChan' = Notify("DELETE")
       ELSE UNCHANGED <<lockKey, revision, watchChan>>
    /\ UNCHANGED <<pc, txnSucceeded, watchCount>>

NextLock ==
    \/ \E p \in Procs, g \in BOOLEAN, k \in BOOLEAN : Grant(p, g, k)
    \/ \E p \in Procs, ok \in BOOLEAN : Txn(p, ok)
    \/ \E p \in Procs : OpenWatch(p)
    \/ \E p \in Procs : RecvEvent(p)
    \/ \E p \in Procs : WatchClose(p)
    \/ \E p \in Procs : WatchLoopExit(p)
    \/ \E p \in Procs, ok \in BOOLEAN : Unlock(p, ok)
    \/ \E p \in Procs : LeaseExpire(p)

\* p is in the Held state: between its successful conditional write and its
\* Unlock delete
Held(p) == pc[p] = "Critical" /\ txnSucceeded[p]

\* ------------------------------------------------------------------------
\* Service registry (registry.go) and discovery (discovery.go)
\* ------------------------------------------------------------------------
\* Strings are sequences of tokens, so that a prefix read is computed as the
\* store computes it.  "order" is a proper prefix of "order_service".
ServiceNames == {<<"order">>, <<"order", "_service">>}
Addrs == {"host:1", "host:2"}

IsPrefix(s, t) == Len(s) <= Len(t) /\ SubSeq(t, 1, Len(s)) = s

\* RecordKey without uuid.New(): every record of a name has the same key
RecordKeySameSuffix(name, n) == name \o <<"-", <<"uuid", 0>>>>

\* serviceName := service.Name() + "-" + uuid.New().String()  (line 48);
\* the n-th uuid is the token <<"uuid", n>>, fresh for every call
RecordKey(name, n) == name \o <<"-", <<"uuid", n>>>>

\* the service name a record key was built from
ServiceNameOf(key) == SubSeq(key, 1, Len(key) - 2)

NoCall == [op |-> "none", reg |-> 0, name |-> <<>>, addr |-> "", err |-> "nil"]

\* what a call of Registry or DeRegistry on registry r returned
Returned(r, op, err) ==
    [op |-> op, reg |-> r, name |-> <<>>, addr |-> "", err |-> err]

\* what a call of GetServiceAddr(name) returned
Resolved(name, addr, err) ==
    [op |-> "GetServiceAddr", reg |-> 0, name |-> name, addr |-> addr,
     err |-> err]

\* a consumer goroutine: not started, started and not yet at its range
\* statement, ranging over channel ch (the stream of lease ch, 0 the nil
\* channel), or past the loop
NoConsumer == [pc |-> "none", ch |-> 0]
Spawned == [pc |-> "spawned", ch |-> 0]
Ranging(ch) == [pc |-> "ranging", ch |-> ch]
Exited(ch) == [pc |-> "exited", ch |-> ch]

InitReg ==
    /\ client = [r \in Registries |-> "open"]
    /\ leaseID = [r \in Registries |-> 0]
    /\ leaseKeepAliveRespCh = [r \in Registries |-> 0]
    /\ leases = [l \in LeaseIds |-> "none"]
    /\ leaseOwner = [l \in LeaseIds |-> 0]
    /\ renewing = {}
    /\ nextLease = 1
    /\ records = {}
    /\ lastCall = NoCall
    /\ consumer = [l \in LeaseIds |-> NoConsumer]
    /\ acks = [l \in LeaseIds |-> 0]

\* BoundTo when the Put of line 50 lacks clientv3.WithLease: no record is
\* bound to any lease
BoundToNothing(l) == {}

\* the records bound to lease l
BoundTo(l) == {rec \in records : rec.lease = l}

\* the outcomes of the three store requests of Registry: the first that
\* fails, or "nil"
RegistryOutcomes == {"grant", "put", "keepalive", "nil"}

\* func (r *RegistryEtcd) Registry(service Service) error
Registry(r, name, addr, outcome) ==
    /\ nextLease <= MaxLeases
    \* go func() { for resp := range r.leaseKeepAliveRespCh ... }() (lines
    \* 81-86), reached when nothing failed
    /\ consumer' = IF outcome = "nil" /\ client[r] = "open"
                   THEN [consumer EXCEPT ![nextLease] = Spawned]
                   ELSE consumer
    /\ UNCHANGED acks
    /\ UNCHANGED <<lockVars, spinVars>>
    /\ UNCHANGED client
    /\ IF outcome = "grant" \/ client[r] = "closed"
       THEN \* Grant failed: return err (lines 43-46)
            /\ lastCall' = Returned(r, "Registry", "grant")
            /\ UNCHANGED <<leaseID, leaseKeepAliveRespCh, leases, leaseOwner,
                           renewing, nextLease, records>>
       ELSE /\ leases' = [leases EXCEPT ![nextLease] = "live"]
            /\ leaseOwner' = [leaseOwner EXCEPT ![nextLease] = r]
            /\ leaseID' = [leaseID EXCEPT ![r] = nextLease]
            /\ nextLease' = nextLease + 1
            /\ IF outcome = "put"
               THEN \* Put failed: return err (lines 50-53)
                    /\ lastCall' = Returned(r, "Registry", "put")
                    /\ UNCHANGED <<leaseKeepAliveRespCh, renewing, records>>
               ELSE /\ records' = records \cup
                          {[key |-> RecordKey(name, nextLease),
                            value |-> addr, lease |-> nextLease]}
                    /\ IF outcome = "keepalive"
                       THEN \* KeepAlive failed: return err (lines 75-78)
                            /\ leaseKeepAliveRespCh' =
                                  [leaseKeepAliveRespCh EXCEPT ![r] = 0]
                            /\ lastCall' = Returned(r, "Registry", "keepalive")
                            /\ UNCHANGED renewing
                       ELSE /\ leaseKeepAliveRespCh' =
                                  [leaseKeepAliveRespCh EXCEPT ![r] = nextLease]
                            /\ renewing' = renewing \cup {nextLease}
                            /\ lastCall' = Returned(r, "Registry", "nil")

\* client.Revoke(ctx, id) fails when the store is unreachable, the client is
\* closed, or the store has no such lease (never granted, expired, revoked)
RevokeFails(r, revokeOk) ==
    \/ ~revokeOk
    \/ client[r] = "closed"
    \/ leaseID[r] = 0
    \/ leases[leaseID[r]] # "live"

\* func (r *RegistryEtcd) DeRegistry() error
DeRegistry(r, revokeOk, closeOk) ==
    /\ UNCHANGED kaVars
    /\ UNCHANGED <<lockVars, spinVars>>
    /\ UNCHANGED <<leaseID, leaseKeepAliveRespCh, leaseOwner, nextLease>>
    /\ IF RevokeFails(r, revokeOk)
       THEN \* return err (lines 93-95)
            /\ lastCall' = Returned(r, "DeRegistry", "revoke")
            /\ UNCHANGED <<client, leases, renewing, records>>
       ELSE /\ leases' = [leases EXCEPT ![leaseID[r]] = "revoked"]
            /\ records' = records \ BoundTo(leaseID[r])
            \* r.client.Close() ends every KeepAlive of this client
            /\ client' = [client EXCEPT ![r] = "closed"]
            /\ renewing' = {l \in renewing : leaseOwner[l] # r}
            /\ lastCall' = Returned(r, "DeRegistry",
                                    IF closeOk THEN "nil" ELSE "close")

\* the store expires a lease that is not renewed and deletes its records
LeaseTimeout(l) ==
    /\ UNCHANGED kaVars
    /\ leases[l] = "live"
    /\ l \notin renewing
    /\ leases' = [leases EXCEPT ![l] = "expired"]
    /\ records' = records \ BoundTo(l)
    /\ UNCHANGED <<client, leaseID, leaseKeepAliveRespCh, leaseOwner, renewing,
                   nextLease, lastCall>>
    /\ UNCHANGED <<lockVars, spinVars>>

\* resp.Kvs of client.Get(ctx, name, clientv3.WithPrefix())
PrefixGet(name) == {rec \in records : IsPrefix(name, rec.key)}

\* GetServiceAddr returning resp.Kvs[0] instead of a random element: the
\* record of the oldest lease.
GetServiceAddrFirst(name, getOk) ==
    /\ UNCHANGED kaVars
    /\ UNCHANGED <<lockVars, spinVars>>
    /\ UNCHANGED <<client, leaseID, leaseKeepAliveRespCh, leases, leaseOwner,
                   renewing, nextLease, records>>
    /\ IF ~getOk
       THEN lastCall' = Resolved(name, "", "get")
       ELSE IF PrefixGet(name) = {}
       THEN lastCall' = Resolved(name, "", "service not found")
       ELSE \E rec \in PrefixGet(name) :
                /\ \A other \in PrefixGet(name) : rec.lease <= other.lease
                /\ lastCall' = Resolved(name, rec.value, "nil")

\* func (d *DiscoveryEtcd) GetServiceAddr(name string) (string, error)
GetServiceAddr(name, getOk) ==
    /\ UNCHANGED kaVars
    /\ UNCHANGED <<lockVars, spinVars>>
    /\ UNCHANGED <<client, leaseID, leaseKeepAliveRespCh, leases, leaseOwner,
                   renewing, nextLease, records>>
    /\ IF ~getOk
       THEN lastCall' = Resolved(name, "", "get")
       ELSE IF PrefixGet(name) = {}
       THEN lastCall' = Resolved(name, "", "service not found")
       ELSE \* rand.Intn(len(resp.Kvs)): any of the records read
            \E rec \in PrefixGet(name) :
                lastCall' = Resolved(name, rec.value, "nil")

NextReg ==
    \/ \E r \in Registries, name \in ServiceNames, addr \in Addrs,
          outcome \in RegistryOutcomes :
            Registry(r, name, addr, outcome)
    \/ \E r \in Registries, v \in BOOLEAN, c \in BOOLEAN : DeRegistry(r, v, c)
    \/ \E l \in LeaseIds : LeaseTimeout(l)
    \/ \E name \in ServiceNames, ok \in BOOLEAN : GetServiceAddr(name, ok)

\* Discovery declares WatchService(name) (<-chan string, error), and
\* DiscoveryEtcd has no such method: no channel is ever handed out and no
\* notification is ever sent.  The notifications a watcher of `name` has been
\* sent so far.
WatchService(name) == <<>>

\* ------------------------------------------------------------------------
\* The keep-alive streams and their consumer goroutines (registry.go:75-86)
\* ------------------------------------------------------------------------
\* the stream of lease ch is closed by the client when the lease is gone or
\* the client is closed
StreamClosed(ch) == ch \notin renewing

\* the client's keep-alive loop puts the store's response in the stream of
\* lease l; with the buffer full the response is dropped
KeepAliveAck(l) ==
    /\ l \in renewing
    /\ acks[l] < MaxAcks
    /\ acks' = [acks EXCEPT ![l] = @ + 1]
    /\ UNCHANGED consumer
    /\ UNCHANGED <<client, leaseID, leaseKeepAliveRespCh, leases, leaseOwner,
                   renewing, nextLease, records, lastCall>>
    /\ UNCHANGED <<lockVars, spinVars>>

\* the goroutine reaches `range r.leaseKeepAliveRespCh` (line 83): the range
\* expression reads the field of the RegistryEtcd once, now
RangeStart(l) ==
    /\ consumer[l].pc = "spawned"
    /\ consumer' = [consumer EXCEPT
                       ![l] = Ranging(leaseKeepAliveRespCh[leaseOwner[l]])]
    /\ UNCHANGED acks
    /\ UNCHANGED <<client, leaseID, leaseKeepAliveRespCh, leases, leaseOwner,
                   renewing, nextLease, records, lastCall>>
    /\ UNCHANGED <<lockVars, spinVars>>

\* one iteration of the loop: a response is received (lines 83-85)
RangeRecv(l) ==
    /\ consumer[l].pc = "ranging"
    /\ consumer[l].ch # 0
    /\ acks[consumer[l].ch] > 0
    /\ acks' = [acks EXCEPT ![consumer[l].ch] = @ - 1]
    /\ UNCHANGED consumer
    /\ UNCHANGED <<client, leaseID, leaseKeepAliveRespCh, leases, leaseOwner,
                   renewing, nextLease, records, lastCall>>
    /\ UNCHANGED <<lockVars, spinVars>>

\* the loop ends on the closed and drained channel (a nil channel blocks
\* forever)
RangeEnd(l) ==
    /\ consumer[l].pc = "ranging"
    /\ consumer[l].ch # 0
    /\ StreamClosed(consumer[l].ch)
    /\ acks[consumer[l].ch] = 0
    /\ consumer' = [consumer EXCEPT ![l] = Exited(consumer[l].ch)]
    /\ UNCHANGED acks
    /\ UNCHANGED <<client, leaseID, leaseKeepAliveRespCh, leases, leaseOwner,
                   renewing, nextLease, records, lastCall>>
    /\ UNCHANGED <<lockVars, spinVars>>

\* ------------------------------------------------------------------------
\* SpinLock (spin_lock.go)
\* ------------------------------------------------------------------------
InitSpin ==
    /\ flag = 0
    /\ spin = [g \in Goroutines |-> "idle"]

\* goroutine g calls sl.Lock(), for the first time or again after its Unlock
SpinLock_Call(g) ==
    /\ spin[g] \in {"idle", "unlocked"}
    /\ spin' = [spin EXCEPT ![g] = "spinning"]
    /\ UNCHANGED flag
    /\ UNCHANGED <<lockVars, regVars, kaVars>>

\* Lock with atomic.SwapInt32(&sl.flag, 1) whose result is not tested
SpinLock_LockBlind(g) ==
    /\ spin[g] = "spinning"
    /\ flag' = 1
    /\ spin' = [spin EXCEPT ![g] = "locked"]
    /\ UNCHANGED <<lockVars, regVars, kaVars>>

\* one evaluation of atomic.CompareAndSwapInt32(&sl.flag, 0, 1) (line 10):
\* Lock returns when it swapped, and tries again when it did not
SpinLock_Lock(g) ==
    /\ spin[g] = "spinning"
    /\ IF flag = 0
       THEN /\ flag' = 1
            /\ spin' = [spin EXCEPT ![g] = "locked"]
       ELSE UNCHANGED <<flag, spin>>
    /\ UNCHANGED <<lockVars, regVars, kaVars>>

\* atomic.StoreInt32(&sl.flag, 0) (line 16), by a goroutine whose Lock
\* returned
SpinLock_Unlock(g) ==
    /\ spin[g] = "locked"
    /\ flag' = 0
    /\ spin' = [spin EXCEPT ![g] = "unlocked"]
    /\ UNCHANGED <<lockVars, regVars, kaVars>>

NextSpin ==
    \/ \E g \in Goroutines : SpinLock_Call(g)
    \/ \E g \in Goroutines : SpinLock_Lock(g)
    \/ \E g \in Goroutines : SpinLock_Unlock(g)

\* ------------------------------------------------------------------------
\* Specifications
\* ------------------------------------------------------------------------
Init == InitLock /\ InitReg /\ InitSpin

\* the lock, with every failure of the store
SpecLock == Init /\ [][NextLock]_vars

\* the store expires the lease of a process that is in its critical section
HolderLeaseExpire(p) == Held(p) /\ LeaseExpire(p)

\* The lock while the store answers every request and no watch channel
\* closes; the one failure left is that the lease of a holder expires.
\* Every step of a started process is taken eventually (the goroutine runs,
\* the critical section ends); whether a process starts at all, and whether
\* a lease expires, is left open.
NextLockLive ==
    \/ \E p \in Procs : Grant(p, TRUE, TRUE)
    \/ \E p \in Procs : Txn(p, TRUE)
    \/ \E p \in Procs : OpenWatch(p)
    \/ \E p \in Procs : RecvEvent(p)
    \/ \E p \in Procs : Unlock(p, TRUE)
    \/ \E p \in Procs : HolderLeaseExpire(p)

\* the next step of the started process p
ProcStep(p) ==
    Txn(p, TRUE) \/ OpenWatch(p) \/ RecvEvent(p) \/ Unlock(p, TRUE)

FairLock == \A p \in Procs : WF_vars(ProcStep(p))

SpecLockLive == Init /\ [][NextLockLive]_vars /\ FairLock

\* the registry and discovery
SpecReg == Init /\ [][NextReg]_vars

\* A process whose run of TestDistributedLockNormal has ended is followed by
\* a new contender: a new run of the test with a new client and no lease.
Arrive(p) ==
    /\ pc[p] = "Done"
    /\ revision < MaxRevision
    /\ UNCHANGED <<regVars, kaVars, spinVars>>
    /\ pc' = [pc EXCEPT ![p] = "Idle"]
    /\ lease' = [lease EXCEPT ![p] = "none"]
    /\ keepAliveChan' = [keepAliveChan EXCEPT ![p] = "nil"]
    /\ txnSucceeded' = [txnSucceeded EXCEPT ![p] = FALSE]
    /\ watchChan' = [watchChan EXCEPT ![p] = NilChan]
    /\ watchCount' = [watchCount EXCEPT ![p] = 0]
    /\ UNCHANGED <<lockKey, revision>>

\* The lock with contenders arriving repeatedly, the store answering every
\* request.
NextLockArrive ==
    \/ \E p \in Procs : Grant(p, TRUE, TRUE)
    \/ \E p \in Procs : Txn(p, TRUE)
    \/ \E p \in Procs : OpenWatch(p)
    \/ \E p \in Procs : RecvEvent(p)
    \/ \E p \in Procs : Unlock(p, TRUE)
    \/ \E p \in Procs : Arrive(p)

SpecLockArrive == Init /\ [][NextLockArrive]_vars

\* the process that owns registry r crashes: its client is gone and every
\* KeepAlive of that client stops; nothing is revoked
Crash(r) ==
    /\ UNCHANGED kaVars
    /\ client[r] = "open"
    /\ client' = [client EXCEPT ![r] = "closed"]
    /\ renewing' = {l \in renewing : leaseOwner[l] # r}
    /\ UNCHANGED <<leaseID, leaseKeepAliveRespCh, leases, leaseOwner,
                   nextLease, records, lastCall>>
    /\ UNCHANGED <<lockVars, spinVars>>

\* The registering process followed to its end: one RegistryEtcd, as
\* NewEtcdRegistry builds one per process.
LiveRegistries == {1}

\* The registry and discovery with a crashing process.  The store runs the
\* TTL of every lease: a lease that is not renewed does time out.
NextRegLive ==
    \/ \E r \in LiveRegistries, name \in ServiceNames, addr \in Addrs,
          outcome \in RegistryOutcomes :
            Registry(r, name, addr, outcome)
    \/ \E r \in LiveRegistries, revokeOk \in BOOLEAN, closeOk \in BOOLEAN :
            DeRegistry(r, revokeOk, closeOk)
    \/ \E l \in LeaseIds : LeaseTimeout(l)
    \/ \E name \in ServiceNames, getOk \in BOOLEAN : GetServiceAddr(name, getOk)
    \/ \E r \in LiveRegistries : Crash(r)

FairReg == \A l \in LeaseIds : WF_vars(LeaseTimeout(l))

SpecRegLive == Init /\ [][NextRegLive]_vars /\ FairReg

\* One registering process with the keep-alive streams of its leases and the
\* consumer goroutines its Registry calls start.
NextKeepAlive ==
    \/ \E r \in LiveRegistries, name \in ServiceNames, addr \in Addrs,
          outcome \in RegistryOutcomes :
            Registry(r, name, addr, outcome)
    \/ \E r \in LiveRegistries, revokeOk \in BOOLEAN, closeOk \in BOOLEAN :
            DeRegistry(r, revokeOk, closeOk)
    \/ \E l \in LeaseIds : LeaseTimeout(l)
    \/ \E l \in LeaseIds : KeepAliveAck(l)
    \/ \E l \in LeaseIds : RangeStart(l)
    \/ \E l \in LeaseIds : RangeRecv(l)
    \/ \E l \in LeaseIds : RangeEnd(l)

SpecKeepAlive == Init /\ [][NextKeepAlive]_vars

SpecSpin == Init /\ [][NextSpin]_vars

\* ------------------------------------------------------------------------
\* Claims
\* ------------------------------------------------------------------------
\* C1: while every lease is kept renewed (none has expired), at most one
\* process is in the Held state at any instant.
C1_MutualExclusion ==
    (\A p \in Procs : lease[p] # "expired")
        => Cardinality({p \in Procs : Held(p)}) <= 1

\* C2: a process in Held has the lock key in the store, bound to its own
\* live lease (an expired lease moves its holder out of Held).
C2_HeldOwnsKey ==
    \A p \in Procs : Held(p) => (lockKey.lease = p /\ lease[p] = "live")

\* C3: an Unlock by a process that does not own the lock key deletes no key
\* bound to another process's lease.
C3_UnlockOnlyOwnKey ==
    [][\A p \in Procs :
          (pc[p] = "Critical" /\ pc'[p] = "Done" /\ lockKey.lease # p)
              => lockKey' = lockKey]_vars

\* C4: a process never proceeds to the critical section without a successful
\* conditional write; in particular not when its watch channel closes.
C4_CriticalOnlyAfterWrite ==
    \A p \in Procs : pc[p] = "Critical" => txnSucceeded[p]

\* C5: a process whose conditional write failed retries the write once the
\* key is deleted, wherever the deletion falls relative to its Watch call.
C5_NoLostWakeup ==
    \A p \in Procs :
        (pc[p] \in {"Contended", "Waiting"} /\ lockKey = NoKey)
            ~> (pc[p] = "Attempting")

\* C6: when the holder's lease expires while the lock is Held, the store
\* deletes the lock key and every process watching it is sent the Delete
\* event; a watcher with a Delete event pending retries and acquires, unless
\* another contender has taken the key.
C6_ExpiryDeletesAndNotifies ==
    \A h \in Procs :
        (Held(h) /\ lockKey.lease = h /\ lease[h] = "live"
                 /\ lease'[h] = "expired")
            => /\ lockKey' = NoKey
               /\ \A q \in Procs :
                    (pc[q] = "Waiting" /\ watchChan[q].state = "open")
                        => watchChan'[q].events =
                               Append(watchChan[q].events, "DELETE")

DeletePending(q) ==
    /\ pc[q] = "Waiting"
    /\ \E i \in 1..Len(watchChan[q].events) :
          watchChan[q].events[i] = "DELETE"

C6_ExpiryReacquire ==
    /\ [][C6_ExpiryDeletesAndNotifies]_vars
    /\ \A q \in Procs :
          DeletePending(q)
              ~> (Held(q) \/ lockKey.lease \notin {0, q})

\* C6 witness: h still sits in its critical section with an expired lease,
\* q, which had to wait for h's key, holds the lock, nobody else took part.
C6_Witness ==
    \E h \in Procs, q \in Procs :
        /\ h # q
        /\ pc[h] = "Critical" /\ txnSucceeded[h] /\ lease[h] = "expired"
        /\ Held(q) /\ lockKey.lease = q /\ watchCount[q] > 0
        /\ \A r \in Procs \ {h, q} : pc[r] = "Idle"

\* C7: when Registry returns an error, no lease granted by that call is left
\* live in the store.
C7_RegistryAtomic ==
    (lastCall.op = "Registry" /\ lastCall.err \in {"put", "keepalive"})
        => leases[leaseID[lastCall.reg]] # "live"

\* C8: after DeRegistry returned successfully on a registry, no record
\* written by a Registry call on that registry remains in the store.
C8_DeRegistryRemovesAll ==
    (lastCall.op = "DeRegistry" /\ lastCall.err = "nil")
        => \A rec \in records : leaseOwner[rec.lease] # lastCall.reg

\* C9: GetServiceAddr(name) returns an address only of a record registered
\* under exactly that name, and the not-found error exactly when there is
\* no such record.
C9_ResolveExactName ==
    [][(lastCall'.op = "GetServiceAddr" /\ lastCall' # lastCall)
          => LET exact == {rec \in records :
                              ServiceNameOf(rec.key) = lastCall'.name}
             IN /\ lastCall'.err = "nil"
                     => \E rec \in exact : rec.value = lastCall'.addr
                /\ lastCall'.err = "service not found" => exact = {}
                /\ (exact = {} /\ lastCall'.err # "get")
                     => lastCall'.err = "service not found"]_vars

\* C10: after DeRegistry returns on a registry that holds a lease, with or
\* without an error, the client connection is closed.
C10_DeRegistryCloses ==
    (lastCall.op = "DeRegistry" /\ leaseID[lastCall.reg] # 0)
        => client[lastCall.reg] = "closed"

\* C11: a lock attempt (the conditional write) made with a lease that is not
\* live ends with an error, whether or not the lock key exists: it never
\* goes on to wait, retry or hold.
C11_DeadLeaseFailsFast ==
    [][\A p \in Procs :
          (pc[p] = "Attempting" /\ lease[p] # "live" /\ pc'[p] # pc[p])
              => pc'[p] = "Failed"]_vars

\* C12: every record in the store is bound to a live lease; a lease that is
\* no longer renewed (its process crashed or closed its client) times out
\* and its records are deleted; GetServiceAddr returns only addresses of
\* records that are in the store when it reads.
C12_RecordsBoundToLiveLease ==
    \A rec \in records : rec.lease \in LeaseIds /\ leases[rec.lease] = "live"

C12_ResolveOnlyStored ==
    (lastCall'.op = "GetServiceAddr" /\ lastCall' # lastCall
                                     /\ lastCall'.err = "nil")
        => \E rec \in records : rec.value = lastCall'.addr

C12_RecordsDieWithLease ==
    /\ []C12_RecordsBoundToLiveLease
    /\ [][C12_ResolveOnlyStored]_vars
    /\ \A l \in LeaseIds :
          (leases[l] = "live" /\ l \notin renewing)
              ~> (leases[l] # "live" /\ BoundTo(l) = {})

\* C12 witness: the last call was a successful Registry on r (its record was
\* written and renewal started); since then r crashed and the store expired
\* the lease and deleted the record.
C12_Witness ==
    /\ lastCall.op = "Registry" /\ lastCall.err = "nil"
    /\ client[lastCall.reg] = "closed"
    /\ leases[leaseID[lastCall.reg]] = "expired"
    /\ BoundTo(leaseID[lastCall.reg]) = {}

\* C13: a watcher of a service name is sent an add notification for every
\* instance of that name that registers (and a remove notification after the
\* instance's lease expired): for every record in the store, the stream of
\* its service name carries the add of its address.
C13_WatchServiceNotifies ==
    \A rec \in records :
        \E i \in 1..Len(WatchService(ServiceNameOf(rec.key))) :
            WatchService(ServiceNameOf(rec.key))[i] = <<"add", rec.value>>

\* C14: every live record of a service name is a possible result of
\* GetServiceAddr of that name: in every state, for every stored record, a
\* successful GetServiceAddr of its name can return its address.
C14_EveryRecordPossible ==
    \A rec \in records :
        ENABLED (/\ GetServiceAddr(ServiceNameOf(rec.key), TRUE)
                 /\ lastCall'.err = "nil"
                 /\ lastCall'.addr = rec.value)

\* C14: when the store holds only records of the asked name, a successful
\* GetServiceAddr returns the address of one of them.
C14_ResultIsMember ==
    (/\ lastCall'.op = "GetServiceAddr" /\ lastCall' # lastCall
     /\ lastCall'.err = "nil"
     /\ \A rec \in records : ServiceNameOf(rec.key) = lastCall'.name)
        => lastCall'.addr \in {rec.value : rec \in records}

\* C14: with several live records of a name, GetServiceAddr returns one of
\* their addresses and each of them is returned in some execution.
C14_ResolveAnyLive ==
    /\ []C14_EveryRecordPossible
    /\ [][C14_ResultIsMember]_vars

\* Two live records of one name with the two addresses, and GetServiceAddr of
\* that name has just returned the address of the later one.
C14_Witness ==
    /\ lastCall.op = "GetServiceAddr" /\ lastCall.err = "nil"
    /\ \E r1, r2 \in records :
          /\ r1.lease < r2.lease
          /\ r1.value # r2.value
          /\ ServiceNameOf(r1.key) = lastCall.name
          /\ ServiceNameOf(r2.key) = lastCall.name
          /\ lastCall.addr = r2.value
          /\ leases[r1.lease] = "live" /\ leases[r2.lease] = "live"

\* C15: a process has at most one open watch subscription on the lock key,
\* and a process that has reached Held has none left: leaving the wait
\* releases the subscription.
C15_WatchReleased ==
    \A p \in Procs :
        /\ watchCount[p] <= 1
        /\ Held(p) => watchCount[p] = 0

\* C16: the acknowledgement stream of every lease whose renewal was started
\* is consumed by a background task: once the started consumer goroutines
\* have all reached their range statement, every stream that holds an unread
\* acknowledgement has a goroutine ranging over it.
C16_StreamsConsumed ==
    \A l \in LeaseIds :
        (/\ acks[l] > 0
         /\ \A c \in LeaseIds : consumer[c].pc # "spawned")
            => \E c \in LeaseIds : consumer[c] = Ranging(l)

C18_RegistryStep ==
    (nextLease' # nextLease /\ lastCall'.op = "Registry"
                            /\ lastCall'.err = "nil")
        => /\ \E rec \in records' :
                 /\ rec.lease = nextLease
                 /\ \A old \in records : old.key # rec.key
                 /\ records' = records \cup {rec}
           /\ leases[nextLease] = "none" /\ leases'[nextLease] = "live"
           /\ nextLease \in renewing'
           /\ \A l \in LeaseIds \ {nextLease} :
                 /\ leases'[l] = leases[l]
                 /\ (l \in renewing') = (l \in renewing)

\* C18: a lease under renewal is live and holds its one record
C18_RenewedRecordLive ==
    \A l \in renewing :
        /\ leases[l] = "live"
        /\ Cardinality(BoundTo(l)) = 1

\* C18: a renewal ends only when the client of its registry is closed
C18_RenewalLasts ==
    \A l \in renewing :
        l \in renewing' \/ client'[leaseOwner[l]] = "closed"

\* C18: successive successful Registry calls produce independent records
\* that stay live while the process runs.
C18_IndependentRecords ==
    /\ []C18_RenewedRecordLive
    /\ [][C18_RegistryStep]_vars
    /\ [][C18_RenewalLasts]_vars

\* Two successful Registry calls of one registry for one name: two records
\* with different keys, both leases live and renewed.
C18_Witness ==
    /\ lastCall.op = "Registry" /\ lastCall.err = "nil"
    /\ \E r1, r2 \in records :
          /\ r1.key # r2.key
          /\ ServiceNameOf(r1.key) = ServiceNameOf(r2.key)
          /\ r1.lease # r2.lease
          /\ leaseOwner[r1.lease] = lastCall.reg
          /\ leaseOwner[r2.lease] = lastCall.reg
          /\ {r1.lease, r2.lease} \subseteq renewing
          /\ leases[r1.lease] = "live" /\ leases[r2.lease] = "live"

\* C19: at most one goroutine is between the return of Lock and its Unlock
C19_MutualExclusion ==
    \A g, h \in Goroutines :
        (spin[g] = "locked" /\ spin[h] = "locked") => g = h

\* C19: flag is 1 exactly while some goroutine is in that section
C19_FlagIffLocked ==
    (flag = 1) <=> (\E g \in Goroutines : spin[g] = "locked")

\* C19: while no goroutine is in the section (at the start and after every
\* Unlock), each spinning goroutine can acquire
C19_SpinnerCanAcquire ==
    (\A h \in Goroutines : spin[h] # "locked")
        => \A g \in Goroutines :
              spin[g] = "spinning"
                  => ENABLED (SpinLock_Lock(g) /\ spin'[g] = "locked")

\* C19: SpinLock gives mutual exclusion among goroutines that call Unlock
\* only after their own Lock returned, flag is 1 exactly while one of them is
\* between Lock and Unlock, and after an Unlock a spinning goroutine can
\* acquire.
C19_SpinLockExclusion ==
    /\ flag \in {0, 1}
    /\ C19_MutualExclusion
    /\ C19_FlagIffLocked
    /\ C19_SpinnerCanAcquire

\* A goroutine has run Lock and Unlock, another goroutine holds the lock
\* now, and a third still spins.
C19_Witness ==
    \E g, h, k \in Goroutines :
        /\ spin[k] = "unlocked"
        /\ spin[g] = "locked" /\ flag = 1
        /\ spin[h] = "spinning"

====
